---- MODULE Spec2Model ----
(***************************************************************************)
(* Model of the microscope monitor application (Laikasu/monitor).          *)
(*                                                                         *)
(* The repository holds two versions of the main window:                   *)
(*   src/main_window.py  the current one: Qt signals, sweep worker threads *)
(*   src/mainwindow.py   the earlier one: a queue-sink listener that runs  *)
(*                       on the camera SDK's callback thread               *)
(* A process runs one of them; `program` says which.  src/mainwindow.py    *)
(* holds an unresolved merge conflict in frames_queued; `variant` says     *)
(* which side of it the build kept.                                        *)
(*                                                                         *)
(* Threads.  Handlers that run on the GUI thread run to completion, so     *)
(* each is one action.  A worker thread (AquisitionWorkerThread.run) is    *)
(* cut at every point where the GUI thread can observably interleave: a   *)
(* step per hardware call, per connect, per wait, per shared write.       *)
(***************************************************************************)
EXTENDS Integers, Sequences, FiniteSets

\* ------------------------------------------------------------------ bounds
MaxOps == 2         \* operations the user triggers in one run
LongRun == MaxOps + 1   \* operations of a run of one window, one setup
MaxSteps == 2       \* largest number of parameter values of a sweep
MaxPhotos == 2      \* frames a recording keeps in MainWindow.photos
MaxFiles == 3       \* most image files chosen in Select Backgrounds
MaxCells == 2       \* grid cells of 16 pixels along each side of the sensor

\* ------------------------------------------------------- program constants
NPositions == 4     \* take_sequence: positions = [[0,0],[1,0],[1,1],[0,1]]
Grid == 16          \* VideoView: np.round(np.clip(...)/16)*16

VARIABLES
    program,            \* "main_window" or "mainwindow"
    variant,            \* mainwindow.py: side of the merge conflict kept
    \* ---- state of both versions
    background,         \* MainWindow.background (an image value, or None)
    subtract_background,\* MainWindow.subtract_background
    is_streaming,       \* grabber.is_streaming
    ops,                \* number of operations the user may still trigger
    \* ---- main_window.py
    xy_stage,           \* an XY stage is connected (self.xy_stage is truthy)
    z_stage,            \* a Z stage is connected
    laser_open,         \* Laser.open
    grid,               \* MainWindow.grid
    aquiring,           \* MainWindow.aquiring
    aquiring_mutex,     \* the worker holding aquiring_mutex, 0 when free
    enabled,            \* the actions enabled by the last update_controls
    mode,               \* VideoView.mode
    start_point,        \* VideoView.start_point: "none", or the mode in
                        \* which the button was pressed (a QPointF in move
                        \* mode, a QPoint snapped to the grid in roi mode)
    subtract_checked,   \* the Background Subtraction action is checked
    photos,             \* MainWindow.photos
    recording,          \* write_frame is connected to new_processed_frame
    conns,              \* single-shot slots connected to camera.new_frame
    pconns,             \* single-shot save_image on new_processed_frame
    laser_data_raw,     \* MainWindow.laser_data_raw
    z_data_raw,         \* MainWindow.z_data_raw
    wavelens,           \* len(self.wavelens)
    z_positions,        \* len(self.z_positions)
    hw,                 \* hardware: laser wavelength index, z index, xy index
                        \* (what a frame shows), and the positions the XY
                        \* and Z stages were last sent to
    workers,            \* the AquisitionWorkerThread objects
    doneQueue,          \* done signals queued to the GUI thread
    \* ---- mainwindow.py
    shoot_photo,        \* MainWindow.shoot_photo
    shoot_bg,           \* MainWindow.shoot_bg
    events,             \* GotPhotoEvents posted to the GUI thread
    capture_to_video,   \* MainWindow.capture_to_video
    video_capture_pause,\* MainWindow.video_capture_pause
    video_writer,       \* the VideoWriter has a file open
    \* ---- observations (history of what the code did)
    obs                 \* see ObsInit

vars == <<program, variant, background, subtract_background, subtract_checked,
          is_streaming,
          ops, xy_stage, z_stage, laser_open, grid, aquiring,
          aquiring_mutex, enabled, mode, start_point, photos, recording,
          conns, pconns, laser_data_raw, z_data_raw, wavelens, z_positions,
          hw, workers, doneQueue, shoot_photo, shoot_bg, events,
          capture_to_video, video_capture_pause, video_writer, obs>>

commonVars == <<background, subtract_background, subtract_checked,
                is_streaming>>
mainVars == <<xy_stage, z_stage, laser_open, grid, aquiring, aquiring_mutex,
              enabled, mode, start_point, photos, recording, conns, pconns,
              laser_data_raw, z_data_raw, wavelens, z_positions, hw, workers,
              doneQueue>>
videoVars == <<capture_to_video, video_capture_pause, video_writer>>
oldVars == <<shoot_photo, shoot_bg, events, videoVars>>

\* ------------------------------------------------------------------ values
\* Every AquisitionWorkerThread is constructed by an operation of the user.
Workers == 1..(LongRun + 1)

\* An image value.  None, a camera frame, or the result of
\* processing.common_background over a list of photos.
None == [kind |-> "none", img |-> <<>>]
Image(frame) == [kind |-> "frame", img |-> <<frame>>]

\* A frame as the camera delivers it: the hardware settings (indices of
\* the wavelength, the z position and the grid position) it shows.  sub
\* says whether the background was subtracted from it (raw frames: FALSE).
Frame(h) == [wl |-> h.wl, z |-> h.z, xy |-> h.xy, sub |-> FALSE]

RECURSIVE Count(_, _)
Count(s, x) == IF s = <<>> THEN 0
               ELSE (IF Head(s) = x THEN 1 ELSE 0) + Count(Tail(s), x)

RECURSIVE Repeat(_, _)
Repeat(x, n) == IF n = 0 THEN <<>> ELSE <<x>> \o Repeat(x, n - 1)

\* processing.common_background(photos): the background common to a list of
\* photos.  The function is not part of the sources at hand; it is kept
\* uninterpreted: its result is determined by the photos it is given.
common_background(ps) == [kind |-> "common", img |-> ps]

\* An entry of a sweep's raw-data list: one frame (non-grid step), or the
\* photos list of a grid step.
Single(frame) == [grid |-> FALSE, img |-> <<frame>>]
Photos(ps) == [grid |-> TRUE, img |-> ps]

\* A single-shot connection to camera.new_frame.  `by` is the worker that
\* made it (0: the GUI thread); Qt keeps no such tag, it is bookkeeping.
Conn(slot, by) == [slot |-> slot, by |-> by]

StoreSlots == {"store_sequence_image", "store_laser_data", "store_z_data"}

RECURSIVE CountSlot(_, _)
CountSlot(cs, slot) ==
    IF cs = <<>> THEN 0
    ELSE (IF Head(cs).slot = slot THEN 1 ELSE 0) + CountSlot(Tail(cs), slot)

RECURSIVE CountBy(_, _)
CountBy(cs, w) ==
    IF cs = <<>> THEN 0
    ELSE (IF Head(cs).by = w /\ Head(cs).slot \in StoreSlots THEN 1 ELSE 0)
         + CountBy(Tail(cs), w)

\* ------------------------------------------------------------ observations
\* obs records what the handlers did, for the properties below; no handler
\* reads it.
\*   accesses  every kind of access made to MainWindow.aquiring: the thread,
\*             read or write, and whether that thread held aquiring_mutex
\*   guiCalls  every Qt GUI operation called, with the calling thread
\*   written   the value the last background writer meant to store, and
\*             whether only snapshots, grid background acquisitions and ROI
\*             changes touched the photos it was computed from
\*   foreign   photos was cleared or appended to by something other than a
\*             grid background acquisition since snap_background cleared it
\*   req       photo requests made since the last frame was delivered
\*   last      how the last frame delivered was treated
\*   laser     what the last call of Laser.grab or Laser.release did
\*   roi_set   how often VideoView.roi_set has been emitted
\*   roi       the rectangle it was last emitted with (the null QRect
\*             before)
\*   rec       the frames update_display has emitted since start_video,
\*             while the video is being recorded
\*   avg       mainwindow.py: the images last given to
\*             difference_weighted_average and the weights it returned
\*   video     mainwindow.py: how the last start of a video capture went
\*             (begin), whether its error was shown, the calls of
\*             video_writer.finish_file made since, and the handler that
\*             made the last of them
Acc(by, kind, held) == [by |-> by, kind |-> kind, held |-> held]
Gui(by, op) == [by |-> by, op |-> op]

\* What is kept of the frames a delivery showed: whether the background
\* was subtracted from each.
Shown(frames) == [j \in 1..Len(frames) |-> [sub |-> frames[j].sub]]

\* ------------------------------------------------------------ the ROI grid
\* VideoView.width and height as set_size stores them: the sensor is
\* MaxCells cells of Grid pixels wide and high.
width == Grid * MaxCells
height == Grid * MaxCells

\* start_point is None.
NoPoint == [kind |-> "none", x |-> 0, y |-> 0]

\* np.clip(v, lo, hi).
clip(v, lo, hi) == IF v < lo THEN lo ELSE IF v > hi THEN hi ELSE v

\* np.round(n / d) for integers n >= 0, d > 0: to the nearest integer, a
\* half to the even neighbour.
round(n, d) ==
    LET q == n \div d
        r == n % d
    IN IF 2 * r < d THEN q
       ELSE IF 2 * r > d THEN q + 1
       ELSE IF q % 2 = 0 THEN q ELSE q + 1

\* np.round(np.clip(v, 0, limit)/16)*16: the grid line nearest to v.
Snap(v, limit) == round(clip(v, 0, limit), Grid) * Grid

\* mouseReleaseEvent's end_point for the scene position pos: the grid
\* point nearest to it, less one pixel each way.
EndPoint(pos) == [x |-> Snap(pos.x, width) - 1, y |-> Snap(pos.y, height) - 1]

\* QRect(topLeft, bottomRight), held by its corners as Qt holds it.
QRect(p1, p2) == [x1 |-> p1.x, y1 |-> p1.y, x2 |-> p2.x, y2 |-> p2.y]

\* QRect.normalized(): where the right edge lies left of the left edge the
\* corners are swapped, each moved by one pixel; likewise top and bottom.
normalized(r) ==
    [x1 |-> IF r.x2 < r.x1 THEN r.x2 + 1 ELSE r.x1,
     x2 |-> IF r.x2 < r.x1 THEN r.x1 - 1 ELSE r.x2,
     y1 |-> IF r.y2 < r.y1 THEN r.y2 + 1 ELSE r.y1,
     y2 |-> IF r.y2 < r.y1 THEN r.y1 - 1 ELSE r.y2]

\* QRect.left(), top(), width(), height().
left(r) == r.x1
top(r) == r.y1
rectWidth(r) == r.x2 - r.x1 + 1
rectHeight(r) == r.y2 - r.y1 + 1

\* Scene positions of the mouse: on, beside and half way between the grid
\* lines, and outside the sensor on either side.
Coordinates ==
    {-3} \cup {c * Grid + d : c \in 0..(MaxCells - 1), d \in {0, 7, 8, 9}}
         \cup {Grid * MaxCells, Grid * MaxCells + 5}
ScenePositions == [x : Coordinates, y : Coordinates]

\* The positions pressed and released in the runs of the whole window.
SomePositions == {[x |-> 3, y |-> 3], [x |-> 20, y |-> 30]}

NoFrame == [seen |-> FALSE, req |-> 0, got |-> 0, pending |-> FALSE,
            flag |-> FALSE, hadBg |-> FALSE, emits |-> <<>>,
            added |-> FALSE]

NoVideo == [begin |-> "none", shown |-> FALSE, finishes |-> 0,
            endedBy |-> "none"]

\* The old window's photo requests: how many of each kind were made, the
\* kinds waiting for the next frame, for each posted GotPhotoEvent the kinds
\* its frame was captured for, how often each save was called, and whether
\* a frame captured for a Shoot Photo request alone went to save_background.
NoShots == [photo |-> 0, bg |-> 0, waiting |-> {}, heldFor |-> <<>>,
            savePhoto |-> 0, save_background |-> 0, misfiled |-> FALSE]

\* No call of the laser yet (mainwindow.py has no laser).
NoLaser == [call |-> "none", result |-> 0, warning |-> FALSE, open |-> FALSE,
            openPorts |-> 0, writes |-> 0, warned |-> FALSE, emits |-> <<>>]

\* __init__ ends with update_controls(), which reads aquiring
\* (mainwindow.py has no such flag: its updateControls reads none).
ObsInit == [accesses |-> {Acc("gui", "read", FALSE)},
            guiCalls |-> {Gui("gui", "update_controls")},
            written |-> [value |-> None, inscope |-> TRUE],
            foreign |-> FALSE,
            req |-> 0,
            last |-> NoFrame,
            laser |-> NoLaser,
            video |-> NoVideo,
            shots |-> NoShots,
            valueError |-> FALSE,
            assigned |-> "navigation",
            roi_set |-> 0,
            roi |-> QRect(NoPoint, [x |-> -1, y |-> -1]),
            rec |-> <<>>,
            avg |-> [imgs |-> <<>>, weights |-> <<>>]]

\* ----------------------------------------------------------- update_controls
\* The set of actions update_controls leaves enabled.  A camera is open and
\* valid throughout (the device dialogs are not modelled), so
\* grabber.is_device_valid and is_device_open are true and the view's
\* background rectangle is not empty.
xy_okay(gr) == (gr /\ xy_stage) \/ ~gr

update_controls(aq, gr, st, lo, bg) ==
      (IF ~aq THEN {"device_properties", "device_driver_properties",
                    "start_live", "close_device", "set_roi"} ELSE {})
    \cup (IF st /\ ~aq THEN {"video", "snap_raw_photo"} ELSE {})
    \cup (IF st /\ ~aq /\ xy_okay(gr)
          THEN {"snap_background", "snap_processed_photo", "move"} ELSE {})
    \cup (IF st /\ ~aq /\ z_stage /\ xy_okay(gr) /\ lo THEN {"z_sweep"} ELSE {})
    \cup (IF bg # None THEN {"subtract_background"} ELSE {})
    \cup (IF lo /\ ~aq /\ st THEN {"laser_sweep"} ELSE {})

\* The setEnabled lines of update_controls in the order they run.
ControlLines == <<"device_properties", "device_driver_properties",
                  "start_live", "video", "close_device", "snap_background",
                  "snap_processed_photo", "snap_raw_photo", "z_sweep",
                  "set_roi", "move", "subtract_background", "laser_sweep">>
LineOf(a) == CHOOSE n \in 1..Len(ControlLines) : ControlLines[n] = a

\* update_controls on a worker's thread runs beside the GUI thread.  The
\* line at which the thread is taken to be suspended between evaluating the
\* line's argument and calling setEnabled with it: the first, or that of
\* Snap Background.
PreemptionLines == {"device_properties", "snap_background"}

\* The lines before `line` have been run: they hold what `fresh` says, the
\* others what they held.
ControlsBefore(line, old, fresh) ==
    {a \in old \cup fresh :
        IF LineOf(a) < LineOf(line) THEN a \in fresh ELSE a \in old}

\* setEnabled(arg) is called for `line` and the lines after it are run.
ControlsFrom(line, arg, old, fresh) ==
    {a \in old \cup fresh \cup {line} :
        IF LineOf(a) < LineOf(line) THEN a \in old
        ELSE IF a = line THEN arg
        ELSE a \in fresh}

\* update_controls called on thread `by`: it reads aquiring without taking
\* aquiring_mutex and calls setEnabled / setChecked on the actions.
ControlsObs(o, by) ==
    [o EXCEPT !.accesses = @ \cup {Acc(by, "read", FALSE)},
              !.guiCalls = @ \cup {Gui(by, "update_controls")}]

\* take_sequence: positions = [[0,0], [1,0], [1,1], [0,1]] * distance, with
\* distance = 4.
Positions == <<(<<0, 0>>), (<<4, 0>>), (<<4, 4>>), (<<0, 4>>)>>
Plus(p, q) == <<p[1] + q[1], p[2] + q[2]>>

\* ------------------------------------------------------------------ workers
\* pc        where run() is
\* func      the function it runs; done: the slot connected to its signal
\* i         index of the sweep step (1..N), 0 outside a sweep loop
\* k         index of the grid position (1..4), 0 outside take_sequence
\* line, arg finish_aquisition's update_controls: the line it is at and the
\*           argument it has evaluated for that line's setEnabled
\* anchor    take_sequence: the XY position read at its start
\* z_zero    take_z_sweep: the Z position read at its start
\* cmds      bookkeeping: the XY positions the current take_sequence has
\*           commanded, in order
\* zcmd      bookkeeping: the Z position take_z_sweep commanded last
\* stored    bookkeeping: sweep steps of this worker whose data was appended
\* cap       bookkeeping: the frames store_sequence_image appended for this
\*           worker's current take_sequence
\* nongrid   bookkeeping: no step of this sweep took the grid branch
Idle == [pc |-> "idle", func |-> "", done |-> "", i |-> 0, k |-> 0,
         line |-> "", arg |-> FALSE,
         anchor |-> <<0, 0>>, z_zero |-> 0, cmds |-> <<>>, zcmd |-> 0,
         stored |-> 0, cap |-> <<>>, nongrid |-> TRUE]
Ended(pc) == [Idle EXCEPT !.pc = pc]

NextWorker == Cardinality({w \in Workers : workers[w].pc # "idle"}) + 1

SweepLen(w) == IF workers[w].func = "take_laser_sweep" THEN wavelens
               ELSE z_positions

\* The numbers of values a sweep dialog is accepted with: the shortest sweep
\* and the longest one considered.
SweepLengths == {1, MaxSteps}

\* A hardware call on a device: it raises when the device is absent, and may
\* raise (a communication failure) when it is present.
HwOutcomes(connected) == IF connected THEN {TRUE, FALSE} ELSE {FALSE}


\* ====================================================== src/main_window.py
\* StartWorker with a constructor that leaves the busy flag alone.
StartWorkerNoFlag(func, done, o) ==
    LET w == NextWorker IN
    /\ w \in Workers
    /\ aquiring_mutex = 0
    /\ workers' = [workers EXCEPT ![w] =
           [Idle EXCEPT !.pc = IF func = "take_sequence" THEN "seq_begin"
                                ELSE "run",
                        !.func = func, !.done = done]]
    /\ aquiring' = aquiring
    /\ enabled' = update_controls(aquiring, grid, is_streaming, laser_open,
                                  background)
    /\ obs' = ControlsObs(o, "gui")

\* AquisitionWorkerThread.__init__ followed by worker.start(), as every
\* caller does: the flag is set under the mutex, update_controls disables
\* the gated actions, and the thread begins to run func.  `o` is obs as the
\* calling handler leaves it.
StartWorker(func, done, o) ==
    LET w == NextWorker IN
    /\ w \in Workers
    /\ aquiring_mutex = 0
    /\ workers' = [workers EXCEPT ![w] =
           [Idle EXCEPT !.pc = IF func = "take_sequence" THEN "seq_begin"
                                ELSE "run",
                        !.func = func, !.done = done]]
    /\ aquiring' = TRUE
    /\ enabled' = update_controls(TRUE, grid, is_streaming, laser_open,
                                  background)
    /\ obs' = ControlsObs(
                [o EXCEPT !.accesses = @ \cup {Acc("gui", "write", TRUE)}],
                "gui")

\* The handlers read aquiring without taking aquiring_mutex.
ReadAquiring(o) == [o EXCEPT !.accesses = @ \cup {Acc("gui", "read", FALSE)}]

\* update_display(frame): the frames it emits as new_processed_frame.
update_display(frame, flag, bg) ==
    IF flag /\ bg # None THEN <<[frame EXCEPT !.sub = TRUE]>>
    ELSE <<frame>>

\* AfterDelivery for connections that are not single-shot.
AfterDeliveryKept(cs) == cs

\* The single-shot connections left on camera.new_frame once a frame has
\* been delivered to them.
AfterDelivery(cs) == <<>>

\* store_sequence_image / store_laser_data / store_z_data end with
\* got_image.wakeAll(): every worker blocked in wait() is woken.  The
\* bookkeeping fields note the data appended for the connecting worker.
Deliver(ws, cs, frame) ==
    [w \in Workers |->
        LET woken == \E j \in 1..Len(cs) : cs[j].slot \in StoreSlots
        IN [ws[w] EXCEPT
              !.pc = IF woken /\ @ = "waiting" THEN "woken" ELSE @,
              !.cap = @ \o Repeat(frame,
                        Count([j \in 1..Len(cs) |->
                                 cs[j].by = w
                                 /\ cs[j].slot = "store_sequence_image"], TRUE)),
              !.stored = @ + Count([j \in 1..Len(cs) |->
                                 cs[j].by = w
                                 /\ cs[j].slot \in {"store_laser_data",
                                                    "store_z_data"}], TRUE)]]

\* The camera delivers a frame: camera.new_frame is emitted on the GUI
\* thread and its slots run in connection order: update_display (connected
\* in __init__), then the single-shot slots.
NewFrame ==
    /\ program = "main_window"
    /\ is_streaming
    /\ recording => Len(photos) < MaxPhotos
    /\ LET frame == Frame(hw)
           emits == update_display(frame, subtract_background, background)
           nsave == CountSlot(conns, "save_image")
           setbg == CountSlot(conns, "set_background") > 0
           bg == IF setbg THEN Image(frame) ELSE background
           rest == AfterDelivery(conns)
       IN \* new_processed_frame: write_frame while recording, save_image
          \* for every pending snap_processed_photo
          /\ photos' = photos
                       \o (IF recording THEN emits ELSE <<>>)
                       \o Repeat(frame, CountSlot(conns, "store_sequence_image"))
          /\ pconns' = 0
          /\ laser_data_raw' = laser_data_raw
                 \o Repeat(Single(frame), CountSlot(conns, "store_laser_data"))
          /\ z_data_raw' = z_data_raw
                 \o Repeat(Single(frame), CountSlot(conns, "store_z_data"))
          /\ background' = bg
          /\ conns' = rest
          /\ workers' = Deliver(workers, conns, frame)
          /\ enabled' = IF setbg
                        THEN update_controls(aquiring, grid, is_streaming,
                                             laser_open, bg)
                        ELSE enabled
          /\ obs' = LET o1 == IF setbg THEN ControlsObs(obs, "gui") ELSE obs
                    IN [o1 EXCEPT
                         !.req = 0,
                         !.foreign = @ \/ recording,
                         !.rec = IF recording THEN @ \o emits ELSE @,
                         !.written = IF setbg
                                     THEN [value |-> Image(frame),
                                           inscope |-> TRUE]
                                     ELSE @,
                         !.guiCalls = @ \cup {Gui("gui", "setPixmap")},
                         !.last = [seen |-> TRUE, req |-> obs.req,
                                   got |-> nsave,
                                   pending |-> CountSlot(rest, "save_image") > 0,
                                   flag |-> subtract_background,
                                   hadBg |-> background # None,
                                   emits |-> Shown(emits),
                                   added |-> FALSE]]
    /\ UNCHANGED <<program, variant, subtract_background, subtract_checked,
                   is_streaming,
                   ops, xy_stage, z_stage, laser_open, grid, aquiring,
                   aquiring_mutex, mode, start_point, recording, wavelens,
                   z_positions, hw, doneQueue, oldVars>>

\* The user triggers an operation (an action, a mouse button).
UserOp == /\ ops > 0
          /\ ops' = ops - 1

\* snap_photo: Snap Raw Photo.
snap_photo ==
    /\ program = "main_window"
    /\ UserOp
    /\ "snap_raw_photo" \in enabled
    /\ conns' = Append(conns, Conn("save_image", 0))
    /\ obs' = [obs EXCEPT !.req = @ + 1]
    /\ UNCHANGED <<program, variant, commonVars, xy_stage, z_stage,
                   laser_open, grid, aquiring, aquiring_mutex, enabled, mode,
                   start_point, photos, recording, pconns, laser_data_raw,
                   z_data_raw, wavelens, z_positions, hw, workers, doneQueue,
                   oldVars>>

\* snap_background: Snap Background.
snap_background ==
    /\ program = "main_window"
    /\ UserOp
    /\ "snap_background" \in enabled
    /\ IF grid
       THEN /\ photos' = <<>>
            /\ IF ~aquiring
               THEN StartWorker("take_sequence", "set_background",
                        ReadAquiring([obs EXCEPT !.foreign = FALSE]))
               ELSE /\ obs' = ReadAquiring([obs EXCEPT !.foreign = FALSE])
                    /\ UNCHANGED <<workers, aquiring, enabled>>
            /\ UNCHANGED conns
       ELSE /\ conns' = Append(conns, Conn("set_background", 0))
            /\ UNCHANGED <<photos, workers, aquiring, enabled, obs>>
    /\ UNCHANGED <<program, variant, commonVars, xy_stage, z_stage,
                   laser_open, grid, aquiring_mutex, mode, start_point,
                   recording, pconns, laser_data_raw, z_data_raw, wavelens,
                   z_positions, hw, doneQueue, oldVars>>

\* snap_processed_photo: Snap Photo.
snap_processed_photo ==
    /\ program = "main_window"
    /\ UserOp
    /\ "snap_processed_photo" \in enabled
    /\ IF grid
       THEN /\ photos' = <<>>
            /\ IF ~aquiring
               THEN StartWorker("take_sequence", "save_processed_photo",
                        ReadAquiring([obs EXCEPT !.foreign = TRUE]))
               ELSE /\ obs' = ReadAquiring([obs EXCEPT !.foreign = TRUE])
                    /\ UNCHANGED <<workers, aquiring, enabled>>
            /\ UNCHANGED pconns
       ELSE /\ pconns' = pconns + 1
            /\ UNCHANGED <<photos, workers, aquiring, enabled, obs>>
    /\ UNCHANGED <<program, variant, commonVars, xy_stage, z_stage,
                   laser_open, grid, aquiring_mutex, mode, start_point,
                   recording, conns, laser_data_raw, z_data_raw, wavelens,
                   z_positions, hw, doneQueue, oldVars>>

\* laser_sweep: Sweep Laser, the dialog accepted with n values.  (A
\* cancelled dialog changes nothing.)  The laser is then at none of the
\* values of the new self.wavelens until take_laser_sweep sets one.
laser_sweep ==
    /\ program = "main_window"
    /\ UserOp
    /\ "laser_sweep" \in enabled
    /\ ~aquiring
    /\ \E n \in SweepLengths :
         /\ wavelens' = n
         /\ hw' = [hw EXCEPT !.wl = 0]
         /\ StartWorker("take_laser_sweep", "save_laser_data",
                        ReadAquiring(obs))
    /\ UNCHANGED <<program, variant, commonVars, xy_stage, z_stage,
                   laser_open, grid, aquiring_mutex, mode, start_point,
                   photos, recording, conns, pconns, laser_data_raw,
                   z_data_raw, z_positions, doneQueue, oldVars>>

\* z_sweep: Focus Sweep, the dialog accepted with n values.
z_sweep ==
    /\ program = "main_window"
    /\ UserOp
    /\ "z_sweep" \in enabled
    /\ ~aquiring
    /\ \E n \in SweepLengths :
         /\ z_positions' = n
         /\ StartWorker("take_z_sweep", "save_z_data", ReadAquiring(obs))
    /\ UNCHANGED <<program, variant, commonVars, xy_stage, z_stage,
                   laser_open, grid, aquiring_mutex, mode, start_point,
                   photos, recording, conns, pconns, laser_data_raw,
                   z_data_raw, wavelens, hw, doneQueue, oldVars>>


\* toggle_grid_act.toggled: setattr(self, 'grid', value).  The action is
\* never disabled and the handler does not call update_controls.
toggle_grid ==
    /\ program = "main_window"
    /\ UserOp
    /\ grid' = ~grid
    /\ UNCHANGED <<program, variant, commonVars, xy_stage, z_stage,
                   laser_open, aquiring, aquiring_mutex, enabled, mode,
                   start_point, photos, recording, conns, pconns,
                   laser_data_raw, z_data_raw, wavelens, z_positions, hw,
                   workers, doneQueue, oldVars, obs>>

\* Laser.grab with a second openPorts call after a busy port.
grabRetry(result, warning) ==
    [call |-> "grab", result |-> result, warning |-> warning,
     open |-> (result = 0),
     openPorts |-> IF result = 0 THEN 1 ELSE 2,
     writes |-> IF result = 0 THEN 2 ELSE 0,
     warned |-> (result # 0 /\ warning),
     emits |-> <<result = 0>>]

\* Laser.grab(warning), nkt.openPorts returning `result`: what the call
\* does.  openPorts: calls of nkt.openPorts; writes: laser registers written
\* (the unlock and set_emission); warned: QMessageBox.warning shown; emits:
\* the values changedState was emitted with.
grab(result, warning) ==
    [call |-> "grab", result |-> result, warning |-> warning,
     open |-> (result = 0),
     openPorts |-> 1,
     writes |-> IF result = 0 THEN 2 ELSE 0,
     warned |-> (result # 0 /\ warning),
     emits |-> <<result = 0>>]

\* Laser.release: closePorts, open = False, changedState(False).
release ==
    [call |-> "release", result |-> 0, warning |-> FALSE, open |-> FALSE,
     openPorts |-> 0, writes |-> 0, warned |-> FALSE, emits |-> <<FALSE>>]

\* The values nkt.openPorts returns: 0, or an error code (port busy).
PortResults == {0, 1}

\* Laser.toggle_laser: release() when open, else grab(); both emit
\* changedState -> update_controls.
toggle_laser ==
    /\ program = "main_window"
    /\ UserOp
    /\ \E result \in (IF laser_open THEN {0} ELSE PortResults) :
         LET did == IF laser_open THEN release ELSE grab(result, TRUE) IN
         /\ laser_open' = did.open
         /\ obs' = [ControlsObs(obs, "gui") EXCEPT !.laser = did]
    /\ enabled' = update_controls(aquiring, grid, is_streaming, laser_open',
                                  background)
    /\ UNCHANGED <<program, variant, commonVars, xy_stage, z_stage, grid,
                   aquiring, aquiring_mutex, mode, start_point, photos,
                   recording, conns, pconns, laser_data_raw, z_data_raw,
                   wavelens, z_positions, hw, workers, doneQueue, oldVars>>

\* start_live_act -> camera.startStopStream: the stream is stopped when it
\* runs and started when it does not; camera.state_changed ->
\* update_controls.
startStopStream ==
    /\ program = "main_window"
    /\ UserOp
    /\ "start_live" \in enabled
    /\ is_streaming' = ~is_streaming
    /\ enabled' = update_controls(aquiring, grid, is_streaming', laser_open,
                                  background)
    /\ obs' = ControlsObs(obs, "gui")
    /\ UNCHANGED <<program, variant, background, subtract_background,
                   subtract_checked,
                   xy_stage, z_stage, laser_open, grid, aquiring,
                   aquiring_mutex, mode, start_point, photos, recording,
                   conns, pconns, laser_data_raw, z_data_raw, wavelens,
                   z_positions, hw, workers, doneQueue, oldVars>>

\* toggle_background_subtraction (Background Subtraction).
toggle_background_subtraction ==
    /\ program = "main_window"
    /\ UserOp
    /\ "subtract_background" \in enabled
    /\ subtract_checked' = ~subtract_checked
    /\ subtract_background' = ~subtract_background
    /\ UNCHANGED <<program, variant, background, is_streaming,
                   mainVars, oldVars, obs>>

\* The modes of the video view, and the values assigned to VideoView.mode:
\* the three modes and two strings that are none of them.
Modes == {"navigation", "move", "roi"}
ModeInputs == Modes \cup {"zoom", ""}

\* SetMode without the test of the value.
SetModeAny(cur, new) == [mode |-> new, raised |-> FALSE]

\* VideoView.mode setter: the mode after `new` is assigned while the mode is
\* cur, and whether ValueError was raised (before _mode is written).
SetMode(cur, new) ==
    IF new = "navigation" \/ new = "move" THEN [mode |-> new, raised |-> FALSE]
    ELSE IF new = "roi" THEN [mode |-> new, raised |-> FALSE]
    ELSE [mode |-> cur, raised |-> TRUE]

\* video_view.mode = v, for any value v.
set_mode(v) ==
    /\ program = "main_window"
    /\ mode' = SetMode(mode, v).mode
    /\ obs' = [obs EXCEPT !.valueError = SetMode(mode, v).raised,
                          !.assigned = v]
    /\ UNCHANGED <<program, variant, commonVars, xy_stage, z_stage,
                   laser_open, grid, aquiring, aquiring_mutex, start_point,
                   photos, recording, conns, pconns, laser_data_raw,
                   z_data_raw, wavelens, z_positions, hw, workers, doneQueue,
                   oldVars, enabled, ops>>

\* toggle_mode's branch: the value it assigns.
ToggleTarget(cur, m) == IF cur = m THEN "navigation" ELSE m

\* toggle_mode(m), from Select ROI (m = "roi") and Move (m = "move").
toggle_mode(m) ==
    /\ program = "main_window"
    /\ UserOp
    /\ (IF m = "roi" THEN "set_roi" ELSE "move") \in enabled
    /\ mode' = SetMode(mode, ToggleTarget(mode, m)).mode
    /\ enabled' = update_controls(aquiring, grid, is_streaming, laser_open,
                                  background)
    /\ obs' = [ControlsObs(obs, "gui") EXCEPT
                 !.valueError = SetMode(mode, ToggleTarget(mode, m)).raised,
                 !.assigned = ToggleTarget(mode, m)]
    /\ UNCHANGED <<program, variant, commonVars, xy_stage, z_stage,
                   laser_open, grid, aquiring, aquiring_mutex, start_point,
                   photos, recording, conns, pconns, laser_data_raw,
                   z_data_raw, wavelens, z_positions, hw, workers, doneQueue,
                   oldVars>>

\* VideoView.mousePressEvent, left button: in move and in roi mode the
\* point is kept in start_point (in navigation mode the press goes to
\* QGraphicsView and nothing of the state changes).  A drag is one gesture
\* of the user: pressing and releasing are not counted as operations.
mousePressEvent(pos) ==
    /\ program = "main_window"
    /\ mode \in {"move", "roi"}
    /\ start_point' = IF mode = "move"
                      THEN [kind |-> "move", x |-> pos.x, y |-> pos.y]
                      ELSE [kind |-> "roi", x |-> Snap(pos.x, width),
                            y |-> Snap(pos.y, height)]
    /\ UNCHANGED <<program, variant, commonVars, xy_stage, z_stage,
                   laser_open, grid, aquiring, aquiring_mutex, enabled, mode,
                   photos, recording, conns, pconns, laser_data_raw,
                   z_data_raw, wavelens, z_positions, hw, workers, doneQueue,
                   oldVars, obs, ops>>

\* mouseReleaseEvent in roi mode with a start point, without the emission
\* of roi_set.
roi_release_silent(pos) ==
    /\ mode' = SetMode(mode, "navigation").mode
    /\ start_point' = NoPoint
    /\ obs' = [obs EXCEPT !.assigned = "navigation"]
    /\ UNCHANGED <<subtract_background, background, enabled>>

\* mouseReleaseEvent in roi mode with a start point: the view leaves roi
\* mode, clears start_point and emits roi_set once; update_roi, connected
\* to it, runs at once: the stream is stopped and started again,
\* subtraction is switched off and the background dropped, then
\* update_controls (which does not touch the checked state of the
\* Background Subtraction action).
roi_release(pos) ==
    /\ mode' = SetMode(mode, "navigation").mode
    /\ start_point' = NoPoint
    /\ subtract_background' = FALSE
    /\ background' = None
    /\ enabled' = update_controls(aquiring, grid, is_streaming,
                                  laser_open, None)
    /\ obs' = [ControlsObs(obs, "gui") EXCEPT
                 !.written = [value |-> None, inscope |-> TRUE],
                 !.valueError = SetMode(mode, "navigation").raised,
                 !.assigned = "navigation",
                 !.roi_set = @ + 1,
                 !.roi = normalized(QRect(start_point, EndPoint(pos)))]

\* VideoView.mouseReleaseEvent, left button.  Without a start point, and in
\* navigation mode, nothing changes; in move mode the start point is
\* cleared; in roi mode the drag is completed.  A start point taken in move
\* mode is a QPointF, which QRect() does not accept: the handler then ends
\* with a TypeError.
mouseReleaseEvent(pos) ==
    /\ program = "main_window"
    /\ IF start_point = NoPoint \/ mode = "navigation"
       THEN UNCHANGED <<mode, start_point, subtract_background, background,
                        enabled, obs>>
       ELSE IF mode = "move"
       THEN /\ start_point' = NoPoint
            /\ UNCHANGED <<mode, subtract_background, background, enabled,
                           obs>>
       ELSE IF start_point.kind = "move"
       THEN UNCHANGED <<mode, start_point, subtract_background, background,
                        enabled, obs>>
       ELSE roi_release(pos)
    /\ UNCHANGED <<program, variant, is_streaming, xy_stage,
                   z_stage, laser_open, grid, aquiring, aquiring_mutex,
                   photos, recording, conns, pconns, laser_data_raw,
                   z_data_raw, wavelens, z_positions, hw, workers, doneQueue,
                   oldVars, ops, subtract_checked>>

\* video_act.toggled -> toggle_video: start_video clears photos and connects
\* write_frame; stop_video disconnects it and saves.
toggle_video ==
    /\ program = "main_window"
    /\ UserOp
    /\ "video" \in enabled
    /\ recording' = ~recording
    /\ IF ~recording
       THEN /\ photos' = <<>>
            /\ obs' = [obs EXCEPT !.foreign = TRUE, !.rec = <<>>]
       ELSE /\ obs' = [obs EXCEPT !.rec = <<>>]
            /\ UNCHANGED photos
    /\ UNCHANGED <<program, variant, commonVars, xy_stage, z_stage,
                   laser_open, grid, aquiring, aquiring_mutex, enabled, mode,
                   start_point, conns, pconns, laser_data_raw, z_data_raw,
                   wavelens, z_positions, hw, workers, doneQueue, oldVars>>

\* The GUI thread handles the oldest queued done signal.  set_background()
\* without an image stores common_background(self.photos) and calls
\* update_controls; on an empty list common_background may raise, and then
\* nothing is stored.  The save_* slots only write files and the status
\* labels.
HandleDone ==
    /\ program = "main_window"
    /\ doneQueue # <<>>
    /\ doneQueue' = Tail(doneQueue)
    /\ LET d == Head(doneQueue) IN
       IF d.slot = "set_background"
       THEN \E raises \in (IF photos = <<>> THEN BOOLEAN ELSE {FALSE}) :
              IF raises
              THEN UNCHANGED <<background, enabled, obs>>
              ELSE /\ background' = common_background(photos)
                   /\ enabled' = update_controls(aquiring, grid, is_streaming,
                                     laser_open, common_background(photos))
                   /\ obs' = [ControlsObs(obs, "gui") EXCEPT
                                !.written =
                                    [value |-> common_background(d.frames),
                                     inscope |-> ~obs.foreign]]
       ELSE /\ obs' = IF d.slot = "save_processed_photo" THEN obs
                       ELSE [obs EXCEPT
                               !.guiCalls = @ \cup {Gui("gui", "setText")}]
            /\ UNCHANGED <<background, enabled>>
    /\ UNCHANGED <<program, variant, subtract_background, subtract_checked,
                   is_streaming,
                   ops, xy_stage, z_stage, laser_open, grid, aquiring,
                   aquiring_mutex, mode, start_point, photos, recording,
                   conns, pconns, laser_data_raw, z_data_raw, wavelens,
                   z_positions, hw, workers, oldVars>>


\* ------------------------------------------- AquisitionWorkerThread.run
\* What the GUI thread's variables keep while a worker takes a step.
guiOnly == <<program, variant, subtract_background, subtract_checked,
             is_streaming, ops,
             xy_stage, z_stage, laser_open, grid, mode, start_point,
             recording, pconns, wavelens, z_positions, oldVars>>

\* An exception leaves run(): the thread ends, finish_aquisition not called.
Fail(w) == workers' = [workers EXCEPT ![w] = Ended("failed")]

\* aquisition_label.setText called on the worker thread.
SetTextObs(o) == [o EXCEPT !.guiCalls = @ \cup {Gui("worker", "setText")}]

\* take_laser_sweep / take_z_sweep up to their loop.
W_Run(w) ==
    /\ workers[w].pc = "run"
    /\ IF workers[w].func = "take_laser_sweep"
       THEN \* set_wavelen(wavelens[0]); sleep(5); laser_data_raw = []
            /\ hw' = [hw EXCEPT !.wl = 1]
            /\ laser_data_raw' = <<>>
            /\ workers' = [workers EXCEPT ![w].pc = "step", ![w].i = 1]
            /\ UNCHANGED z_data_raw
       ELSE \* z_zero = getZPosition(); z_data_raw = []
            /\ \E ok \in HwOutcomes(z_stage) :
                 IF ok
                 THEN /\ z_data_raw' = <<>>
                      /\ workers' = [workers EXCEPT ![w].pc = "step",
                                                    ![w].i = 1,
                                                    ![w].z_zero = hw.zpos]
                 ELSE /\ Fail(w)
                      /\ UNCHANGED z_data_raw
            /\ UNCHANGED <<hw, laser_data_raw>>
    /\ UNCHANGED <<guiOnly, background, aquiring, aquiring_mutex, enabled,
                   photos, conns, doneQueue, obs>>

\* take_z_sweep: pos = z_zero + z, with z the i-th of z_positions (the
\* offsets 1..N stand for them); a laser sweep commands no Z position.
ZPos(w) == workers[w].z_zero + workers[w].i
ZCmd(w) == IF workers[w].func = "take_z_sweep" THEN ZPos(w)
           ELSE workers[w].zcmd

\* One iteration of the sweep loop up to the capture: the progress label,
\* the parameter, then the branch on self.grid.
W_Step(w) ==
    /\ workers[w].pc = "step"
    /\ \E ok \in (IF workers[w].func = "take_laser_sweep" THEN {TRUE}
                  ELSE HwOutcomes(z_stage)) :
         IF ok
         THEN /\ hw' = IF workers[w].func = "take_laser_sweep"
                       THEN [hw EXCEPT !.wl = workers[w].i]
                       ELSE [hw EXCEPT !.z = workers[w].i,
                                       !.zpos = ZPos(w)]
              /\ IF grid
                 THEN /\ photos' = <<>>
                      /\ obs' = [SetTextObs(obs) EXCEPT !.foreign = TRUE]
                      /\ workers' = [workers EXCEPT ![w].pc = "seq_begin",
                                                    ![w].nongrid = FALSE,
                                                    ![w].zcmd = ZCmd(w)]
                 ELSE /\ workers' = [workers EXCEPT ![w].pc = "connect",
                                                    ![w].zcmd = ZCmd(w)]
                      /\ obs' = SetTextObs(obs)
                      /\ UNCHANGED photos
         ELSE /\ Fail(w)
              /\ obs' = SetTextObs(obs)
              /\ UNCHANGED <<hw, photos>>
    /\ UNCHANGED <<guiOnly, background, aquiring, aquiring_mutex, enabled,
                   conns, laser_data_raw, z_data_raw, doneQueue>>

\* take_sequence: anchor = getXYPosition(self.xy_stage).
W_SeqBegin(w) ==
    /\ workers[w].pc = "seq_begin"
    /\ \E ok \in HwOutcomes(xy_stage) :
         IF ok
         THEN workers' = [workers EXCEPT ![w].pc = "seq_move", ![w].k = 1,
                                         ![w].cap = <<>>,
                                         ![w].anchor = hw.xypos,
                                         ![w].cmds = <<>>]
         ELSE Fail(w)
    /\ UNCHANGED <<guiOnly, background, aquiring, aquiring_mutex, enabled,
                   photos, conns, laser_data_raw, z_data_raw, hw, doneQueue,
                   obs>>

\* take_sequence: pos = position + anchor; setXYPosition(pos);
\* waitForDevice; sleep.
W_SeqMove(w) ==
    /\ workers[w].pc = "seq_move"
    /\ \E ok \in HwOutcomes(xy_stage) :
         IF ok
         THEN LET pos == Plus(Positions[workers[w].k], workers[w].anchor)
              IN /\ hw' = [hw EXCEPT !.xy = workers[w].k, !.xypos = pos]
                 /\ workers' = [workers EXCEPT ![w].pc = "connect",
                                               ![w].cmds = Append(@, pos)]
         ELSE /\ Fail(w)
              /\ UNCHANGED hw
    /\ UNCHANGED <<guiOnly, background, aquiring, aquiring_mutex, enabled,
                   photos, conns, laser_data_raw, z_data_raw, doneQueue, obs>>

\* The slot a worker connects for the capture it is at.
StoreSlot(w) ==
    IF workers[w].k > 0 THEN "store_sequence_image"
    ELSE IF workers[w].func = "take_laser_sweep" THEN "store_laser_data"
    ELSE "store_z_data"

\* camera.new_frame.connect(store_..., SingleShotConnection)
W_Connect(w) ==
    /\ workers[w].pc = "connect"
    /\ conns' = Append(conns, Conn(StoreSlot(w), w))
    /\ workers' = [workers EXCEPT ![w].pc = "lock"]
    /\ UNCHANGED <<guiOnly, background, aquiring, aquiring_mutex, enabled,
                   photos, laser_data_raw, z_data_raw, hw, doneQueue, obs>>

\* W_Wait with a wait that returns at once.
W_WaitNoBlock(w) ==
    /\ workers[w].pc = "lock"
    /\ workers' = [workers EXCEPT ![w].pc = "woken"]
    /\ UNCHANGED <<guiOnly, background, aquiring, aquiring_mutex, enabled,
                   photos, conns, laser_data_raw, z_data_raw, hw, doneQueue,
                   obs>>

\* got_image_mutex.lock(); got_image.wait(got_image_mutex): the worker
\* blocks until a later wakeAll.  wait has no timeout.
W_Wait(w) ==
    /\ workers[w].pc = "lock"
    /\ workers' = [workers EXCEPT ![w].pc = "waiting"]
    /\ UNCHANGED <<guiOnly, background, aquiring, aquiring_mutex, enabled,
                   photos, conns, laser_data_raw, z_data_raw, hw, doneQueue,
                   obs>>

\* W_Woken with a loop that leaves out the last value of the sweep.
W_WokenShort(w) ==
    /\ workers[w].pc = "woken"
    /\ workers' =
         IF workers[w].k > 0
         THEN IF workers[w].k < NPositions
              THEN [workers EXCEPT ![w].pc = "seq_move", ![w].k = @ + 1]
              ELSE [workers EXCEPT ![w].pc = "seq_return"]
         ELSE IF workers[w].i + 1 < SweepLen(w)
              THEN [workers EXCEPT ![w].pc = "step", ![w].i = @ + 1]
              ELSE [workers EXCEPT ![w].pc = "sweep_end"]
    /\ UNCHANGED <<guiOnly, background, aquiring, aquiring_mutex, enabled,
                   photos, conns, laser_data_raw, z_data_raw, hw, doneQueue,
                   obs>>

\* wait has returned: got_image_mutex.unlock() and the next iteration.
W_Woken(w) ==
    /\ workers[w].pc = "woken"
    /\ workers' =
         IF workers[w].k > 0
         THEN IF workers[w].k < NPositions
              THEN [workers EXCEPT ![w].pc = "seq_move", ![w].k = @ + 1]
              ELSE [workers EXCEPT ![w].pc = "seq_return"]
         ELSE IF workers[w].i < SweepLen(w)
              THEN [workers EXCEPT ![w].pc = "step", ![w].i = @ + 1]
              ELSE [workers EXCEPT ![w].pc = "sweep_end"]
    /\ UNCHANGED <<guiOnly, background, aquiring, aquiring_mutex, enabled,
                   photos, conns, laser_data_raw, z_data_raw, hw, doneQueue,
                   obs>>

\* W_SeqReturn for a take_sequence that ends at its last position.
W_SeqStay(w) ==
    /\ workers[w].pc = "seq_return"
    /\ workers' = [workers EXCEPT
          ![w].k = 0,
          ![w].pc = IF workers[w].func = "take_sequence"
                    THEN "emit_done" ELSE "seq_store"]
    /\ UNCHANGED <<guiOnly, background, aquiring, aquiring_mutex, enabled,
                   photos, conns, laser_data_raw, z_data_raw, hw, doneQueue,
                   obs>>

\* take_sequence: "Return to base", setXYPosition(anchor).
W_SeqReturn(w) ==
    /\ workers[w].pc = "seq_return"
    /\ \E ok \in HwOutcomes(xy_stage) :
         IF ok
         THEN /\ hw' = [hw EXCEPT !.xy = 0, !.xypos = workers[w].anchor]
              /\ workers' = [workers EXCEPT
                   ![w].k = 0,
                   ![w].cmds = Append(@, workers[w].anchor),
                   ![w].pc = IF workers[w].func = "take_sequence"
                             THEN "emit_done" ELSE "seq_store"]
         ELSE /\ Fail(w)
              /\ UNCHANGED hw
    /\ UNCHANGED <<guiOnly, background, aquiring, aquiring_mutex, enabled,
                   photos, conns, laser_data_raw, z_data_raw, doneQueue, obs>>

\* The grid branch of a sweep step after take_sequence():
\*   ..._data_raw.append(self.photos)
\*   self.background = pc.common_background(self.photos)
\* (the list appended is the photos object itself; it is recorded here with
\* the contents it has at that moment).
W_SeqStore(w) ==
    /\ workers[w].pc = "seq_store"
    /\ IF workers[w].func = "take_laser_sweep"
       THEN /\ laser_data_raw' = Append(laser_data_raw, Photos(photos))
            /\ UNCHANGED z_data_raw
       ELSE /\ z_data_raw' = Append(z_data_raw, Photos(photos))
            /\ UNCHANGED laser_data_raw
    /\ background' = common_background(photos)
    /\ obs' = [obs EXCEPT !.written = [value |-> common_background(photos),
                                       inscope |-> FALSE]]
    /\ workers' =
         IF workers[w].i < SweepLen(w)
         THEN [workers EXCEPT ![w].pc = "step", ![w].i = @ + 1,
                              ![w].stored = @ + 1]
         ELSE [workers EXCEPT ![w].pc = "sweep_end", ![w].stored = @ + 1]
    /\ UNCHANGED <<guiOnly, aquiring, aquiring_mutex, enabled, photos, conns,
                   hw, doneQueue>>

\* After the loop: take_z_sweep returns the stage to z_zero; both set the
\* label to 'Calculating Images'.
W_SweepEnd(w) ==
    /\ workers[w].pc = "sweep_end"
    /\ \E ok \in (IF workers[w].func = "take_laser_sweep" THEN {TRUE}
                  ELSE HwOutcomes(z_stage)) :
         IF ok
         THEN /\ hw' = IF workers[w].func = "take_z_sweep"
                       THEN [hw EXCEPT !.z = 0, !.zpos = workers[w].z_zero]
                       ELSE hw
              /\ workers' = [workers EXCEPT
                   ![w].pc = "emit_done",
                   ![w].zcmd = IF workers[w].func = "take_z_sweep"
                               THEN workers[w].z_zero ELSE @]
              /\ obs' = SetTextObs(obs)
         ELSE /\ Fail(w)
              /\ UNCHANGED <<hw, obs>>
    /\ UNCHANGED <<guiOnly, background, aquiring, aquiring_mutex, enabled,
                   photos, conns, laser_data_raw, z_data_raw, doneQueue>>

\* run(): self.done.emit().  The receiver lives in the GUI thread, so the
\* call is queued.  `frames` notes what this acquisition captured.
W_EmitDone(w) ==
    /\ workers[w].pc = "emit_done"
    /\ doneQueue' = Append(doneQueue, [slot |-> workers[w].done,
                                       frames |-> workers[w].cap])
    /\ workers' = [workers EXCEPT ![w].pc = "finish_lock"]
    /\ UNCHANGED <<guiOnly, background, aquiring, aquiring_mutex, enabled,
                   photos, conns, laser_data_raw, z_data_raw, hw, obs>>

\* W_FinishLock for a finish_aquisition that does not take the mutex.
W_FinishNoLock(w) ==
    /\ workers[w].pc = "finish_lock"
    /\ workers' = [workers EXCEPT ![w].pc = "finish_write"]
    /\ UNCHANGED <<guiOnly, background, aquiring, aquiring_mutex, enabled,
                   photos, conns, laser_data_raw, z_data_raw, hw, doneQueue,
                   obs>>

\* finish_aquisition: aquiring_mutex.lock()
W_FinishLock(w) ==
    /\ workers[w].pc = "finish_lock"
    /\ aquiring_mutex = 0
    /\ aquiring_mutex' = w
    /\ workers' = [workers EXCEPT ![w].pc = "finish_write"]
    /\ UNCHANGED <<guiOnly, background, aquiring, enabled, photos, conns,
                   laser_data_raw, z_data_raw, hw, doneQueue, obs>>

\* finish_aquisition: self.parent.aquiring = False
W_FinishWrite(w) ==
    /\ workers[w].pc = "finish_write"
    /\ aquiring' = FALSE
    /\ obs' = [obs EXCEPT !.accesses =
                 @ \cup {Acc("worker", "write", aquiring_mutex = w)}]
    /\ workers' = [workers EXCEPT ![w].pc = "finish_unlock"]
    /\ UNCHANGED <<guiOnly, background, aquiring_mutex, enabled, photos,
                   conns, laser_data_raw, z_data_raw, hw, doneQueue>>

\* finish_aquisition: aquiring_mutex.unlock(); self.parent.update_controls()
\* -- on the worker thread, up to the evaluation of the argument of one of
\* its setEnabled lines.
W_FinishUnlock(w) ==
    /\ workers[w].pc = "finish_unlock"
    /\ aquiring_mutex' = IF aquiring_mutex = w THEN 0 ELSE aquiring_mutex
    /\ LET fresh == update_controls(aquiring, grid, is_streaming, laser_open,
                                    background)
       IN \E line \in PreemptionLines :
            /\ enabled' = ControlsBefore(line, enabled, fresh)
            /\ workers' = [workers EXCEPT ![w].pc = "finish_controls",
                                          ![w].line = line,
                                          ![w].arg = (line \in fresh)]
    /\ obs' = ControlsObs(obs, "worker")
    /\ UNCHANGED <<guiOnly, background, aquiring, photos, conns,
                   laser_data_raw, z_data_raw, hw, doneQueue>>

\* update_controls on the worker thread goes on: setEnabled is called with
\* the argument evaluated before, the lines after it follow, and run()
\* returns.
W_FinishControls(w) ==
    /\ workers[w].pc = "finish_controls"
    /\ enabled' = ControlsFrom(workers[w].line, workers[w].arg, enabled,
                     update_controls(aquiring, grid, is_streaming,
                                     laser_open, background))
    /\ obs' = ControlsObs(obs, "worker")
    /\ workers' = [workers EXCEPT ![w] = Ended("finished")]
    /\ UNCHANGED <<guiOnly, background, aquiring, aquiring_mutex, photos,
                   conns, laser_data_raw, z_data_raw, hw, doneQueue>>

WorkerStep(w) ==
    /\ program = "main_window"
    /\ \/ W_Run(w) \/ W_Step(w) \/ W_SeqBegin(w) \/ W_SeqMove(w)
       \/ W_Connect(w) \/ W_Wait(w) \/ W_Woken(w) \/ W_SeqReturn(w)
       \/ W_SeqStore(w) \/ W_SweepEnd(w) \/ W_EmitDone(w)
       \/ W_FinishLock(w) \/ W_FinishWrite(w) \/ W_FinishUnlock(w)
       \/ W_FinishControls(w)


\* ======================================================== src/mainwindow.py
mainOnly == <<mainVars>>

\* frames_queued_subtract without the test for a background.
frames_queued_subtract_any(frame, flag, bg) ==
    IF flag THEN <<[frame EXCEPT !.sub = TRUE]>> ELSE <<frame>>

\* frames_queued: the background is subtracted from the frame in place.
frames_queued_subtract(frame, flag, bg) ==
    IF flag
    THEN IF bg # None THEN <<[frame EXCEPT !.sub = TRUE]>> ELSE <<frame>>
    ELSE <<frame>>

\* Listener.frames_queued, on the camera SDK's callback thread.  A pending
\* photo request is cleared and the buffer posted to the GUI thread as a
\* GotPhotoEvent.  While capturing and not paused the buffer is given to
\* video_writer.add_frame, whose exception (no file open) is swallowed:
\* `added` says the writer took the frame.  The HEAD side of the conflict
\* then builds a QImage and calls self.video.setPixmap on this thread; the
\* other side hands the buffer to the SDK's display.
frames_queued ==
    /\ program = "mainwindow"
    /\ is_streaming
    /\ LET frame == Frame(hw) IN
       /\ shoot_photo' = FALSE
       /\ events' = IF shoot_photo THEN Append(events, frame) ELSE events
       /\ obs' = [obs EXCEPT
            !.req = 0,
            !.shots = IF shoot_photo
                      THEN [@ EXCEPT !.waiting = {},
                                     !.heldFor = Append(@, obs.shots.waiting)]
                      ELSE @,
            !.guiCalls = IF variant = "HEAD"
                         THEN @ \cup {Gui("camera", "setPixmap")} ELSE @,
            !.last = [seen |-> TRUE, req |-> obs.req,
                      got |-> IF shoot_photo THEN 1 ELSE 0,
                      pending |-> FALSE,
                      flag |-> subtract_background,
                      hadBg |-> background # None,
                      emits |-> Shown(frames_queued_subtract(frame,
                                    subtract_background, background)),
                      added |-> (capture_to_video /\ ~video_capture_pause
                                 /\ video_writer)]]
    /\ UNCHANGED <<program, variant, background, subtract_background,
                   subtract_checked, is_streaming, ops, mainOnly, shoot_bg,
                   videoVars>>

\* onShootPhoto (Shoot Photo, enabled while streaming).
onShootPhoto ==
    /\ program = "mainwindow"
    /\ UserOp
    /\ is_streaming
    /\ shoot_photo' = TRUE
    /\ obs' = [obs EXCEPT !.req = @ + 1,
                          !.shots.photo = @ + 1,
                          !.shots.waiting = @ \cup {"photo"}]
    /\ UNCHANGED <<program, variant, commonVars, mainOnly, shoot_bg, events,
                   videoVars>>

\* onShootBG (Save Background, enabled while streaming).
onShootBG ==
    /\ program = "mainwindow"
    /\ UserOp
    /\ is_streaming
    /\ shoot_photo' = TRUE
    /\ shoot_bg' = TRUE
    /\ obs' = [obs EXCEPT !.req = @ + 1,
                          !.shots.bg = @ + 1,
                          !.shots.waiting = @ \cup {"bg"}]
    /\ UNCHANGED <<program, variant, commonVars, mainOnly, events,
                   videoVars>>

\* customEvent(GotPhotoEvent): save_background when shoot_bg is set, else
\* savePhoto.
customEvent ==
    /\ program = "mainwindow"
    /\ events # <<>>
    /\ events' = Tail(events)
    /\ shoot_bg' = FALSE
    /\ obs' = [obs EXCEPT !.shots =
         IF shoot_bg
         THEN [@ EXCEPT !.heldFor = Tail(@),
                        !.save_background = @ + 1,
                        !.misfiled = @ \/ Head(obs.shots.heldFor) = {"photo"}]
         ELSE [@ EXCEPT !.heldFor = Tail(@),
                        !.savePhoto = @ + 1]]
    /\ UNCHANGED <<program, variant, commonVars, ops, mainOnly, shoot_photo,
                   videoVars>>

\* ------------------------------------------------ select_background
\* An image is taken at one pixel: a grey value as cv2.imread(file, 0)
\* returns it (uint8).  The values below sit on both sides of the two
\* thresholds of the weighting.
Pixels == {0, 9, 19, 255}

\* Sum of f[1..n].
RECURSIVE SumTo(_, _)
SumTo(f, n) == IF n = 0 THEN 0 ELSE f[n] + SumTo(f, n - 1)

\* np.abs(np.subtract(a, b, dtype=np.int16)) on uint8 values: the
\* difference lies within int16, so nothing wraps.
AbsDiff(a, b) == IF a >= b THEN a - b ELSE b - a

\* weight = 0.01 + np.where(diff < 10, 1, 0) + np.where(diff < 20, 0.5, 0),
\* in hundredths.
PairWeight(diff) == 1 + (IF diff < 10 THEN 100 ELSE 0)
                      + (IF diff < 20 THEN 50 ELSE 0)

\* difference_weighted_average adding a pair's weight to the first image
\* of the pair only.
difference_weighted_average_first(backgrounds) ==
    LET n == Len(backgrounds) IN
    [i \in 1..n |->
        SumTo([j \in 1..n |->
                 IF i < j
                 THEN PairWeight(AbsDiff(backgrounds[i], backgrounds[j]))
                 ELSE 0], n)]

\* difference_weighted_average(backgrounds): for every pair i < j the
\* pair's weight is added to output_weights[i] and to output_weights[j].
\* Weights are in hundredths.
difference_weighted_average(backgrounds) ==
    LET n == Len(backgrounds) IN
    [i \in 1..n |->
        SumTo([j \in 1..n |->
                 IF i < j
                 THEN PairWeight(AbsDiff(backgrounds[i], backgrounds[j]))
                 ELSE IF j < i
                 THEN PairWeight(AbsDiff(backgrounds[j], backgrounds[i]))
                 ELSE 0], n)]

\* np.average(backgrounds, axis=0, weights=weights).astype(uint8): the
\* weighted sum over the sum of the weights, truncated.  np.average raises
\* ZeroDivisionError when the weights sum to zero: <<>> then, else the
\* one-pixel image.
average(backgrounds, weights) ==
    LET n == Len(backgrounds)
        total == SumTo(weights, n)
    IN IF total = 0 THEN <<>>
       ELSE <<SumTo([i \in 1..n |-> backgrounds[i] * weights[i]], n)
                \div total>>

\* select_background with the dialog accepted and `files` chosen.  With
\* two or more files their weighted average becomes the background and is
\* shown; with one file the handler returns at once.
select_background(files) ==
    /\ program = "mainwindow"
    /\ UserOp
    /\ IF Len(files) > 1
       THEN LET weights == difference_weighted_average(files)
                background_ == average(files, weights)
            IN IF background_ # <<>>
               THEN /\ background' = [kind |-> "files", img |-> background_]
                    /\ obs' = [obs EXCEPT
                          !.guiCalls = @ \cup {Gui("gui", "setPixmap")},
                          !.written = [value |-> [kind |-> "files",
                                                  img |-> background_],
                                       inscope |-> TRUE],
                          !.avg = [imgs |-> files, weights |-> weights]]
               ELSE \* np.average raises ZeroDivisionError
                    /\ obs' = [obs EXCEPT
                          !.avg = [imgs |-> files, weights |-> weights]]
                    /\ UNCHANGED background
       ELSE UNCHANGED <<background, obs>>
    /\ UNCHANGED <<program, variant, subtract_background, subtract_checked,
                   is_streaming,
                   mainOnly, oldVars>>

\* The selections of 1..MaxFiles files.
Selections == UNION {[1..n -> Pixels] : n \in 1..MaxFiles}

\* The selections made in the runs of the whole window: one file, and two
\* files that differ by less than 10.
SomeSelections == {<<0>>, <<0, 9>>}

\* QAction.setChecked(value) on an action whose checked state is `was`.
setChecked(was, value) == value

\* mainwindow.py's toggle_background_subtraction: triggering the checkable
\* action flips its checked state, then the handler flips the flag and
\* calls setChecked with it.
old_toggle_background_subtraction ==
    /\ program = "mainwindow"
    /\ UserOp
    /\ subtract_background' = ~subtract_background
    /\ subtract_checked' = setChecked(~subtract_checked, ~subtract_background)
    /\ UNCHANGED <<program, variant, background, is_streaming,
                   mainOnly, oldVars, obs>>

\* onStartStopCaptureVideo (Capture Video), the file dialog accepted.
\* While capturing it calls self.stopCapturevideo(), a method MainWindow
\* does not have: the handler raises and nothing changes.  Otherwise
\* video_writer.begin_file opens the file or raises; the exception is shown
\* and the handler goes on to set capture_to_video.
onStartStopCaptureVideo ==
    /\ program = "mainwindow"
    /\ UserOp
    /\ IF capture_to_video
       THEN UNCHANGED <<capture_to_video, video_writer, obs>>
       ELSE \E ok \in BOOLEAN :
              /\ video_writer' = (ok \/ video_writer)
              /\ capture_to_video' = TRUE
              /\ obs' = [obs EXCEPT
                           !.video = [begin |-> IF ok THEN "ok" ELSE "failed",
                                      shown |-> ~ok,
                                      finishes |-> 0,
                                      endedBy |-> "none"]]
    /\ UNCHANGED <<program, variant, commonVars, mainOnly, shoot_photo,
                   shoot_bg, events, video_capture_pause>>

\* onPauseCaptureVideo (Pause Capture Video, a checkable action).
onPauseCaptureVideo ==
    /\ program = "mainwindow"
    /\ UserOp
    /\ video_capture_pause' = ~video_capture_pause
    /\ UNCHANGED <<program, variant, commonVars, mainOnly, shoot_photo,
                   shoot_bg, events, capture_to_video, video_writer, obs>>

\* What onStopCaptureVideo leaves in obs: one more call of finish_file.
StopCaptureObs(o, by) == [o EXCEPT !.video.finishes = @ + 1,
                                   !.video.endedBy = by]

\* onStopCaptureVideo (Stop Capture Video, enabled while capture_to_video):
\* capture_to_video = False, then video_writer.finish_file().
onStopCaptureVideo ==
    /\ program = "mainwindow"
    /\ UserOp
    /\ capture_to_video
    /\ capture_to_video' = FALSE
    /\ video_writer' = FALSE
    /\ obs' = StopCaptureObs(obs, "record_stop_act")
    /\ UNCHANGED <<program, variant, commonVars, mainOnly, shoot_photo,
                   shoot_bg, events, video_capture_pause>>

\* old_startStopStream for a startStopStream that only stops or starts the
\* stream.
old_startStopStream_only ==
    /\ program = "mainwindow"
    /\ UserOp
    /\ is_streaming' = ~is_streaming
    /\ UNCHANGED <<program, variant, background, subtract_background,
                   subtract_checked, mainOnly, shoot_photo, shoot_bg, events,
                   videoVars, obs>>

\* mainwindow.py's startStopStream, with a valid device: a running stream
\* is stopped, and onStopCaptureVideo called when capturing; a stopped one
\* is started.
old_startStopStream ==
    /\ program = "mainwindow"
    /\ UserOp
    /\ is_streaming' = ~is_streaming
    /\ IF is_streaming /\ capture_to_video
       THEN /\ capture_to_video' = FALSE
            /\ video_writer' = FALSE
            /\ obs' = StopCaptureObs(obs, "startStopStream")
       ELSE UNCHANGED <<capture_to_video, video_writer, obs>>
    /\ UNCHANGED <<program, variant, background, subtract_background,
                   subtract_checked, mainOnly, shoot_photo, shoot_bg, events,
                   video_capture_pause>>

\* =========================================================== specification
\* The state after MainWindow.__init__.  setup_micromanager loads the
\* configuration, which names both stages, or fails and leaves both None;
\* Laser.__init__ grabs the port or finds it busy; reloading
\* the saved device state (camera.reload_device, onDeviceOpened) starts the
\* stream or, with no device saved, does not.
\* The state after __init__, the stages standing at `start` and the user
\* about to trigger at most `budget` operations.
InitAt(start, budget) ==
    /\ \E pv \in {<<"main_window", "none">>, <<"mainwindow", "HEAD">>,
                   <<"mainwindow", "theirs">>} :
         /\ program = pv[1]
         /\ variant = pv[2]
    /\ background = None
    /\ subtract_background = FALSE
    /\ subtract_checked = FALSE
    /\ is_streaming \in BOOLEAN
    /\ ops = budget
    /\ xy_stage \in (IF program = "main_window" THEN BOOLEAN ELSE {FALSE})
    /\ z_stage = xy_stage
    /\ \E result \in (IF program = "main_window" THEN PortResults ELSE {1}) :
         /\ laser_open = (program = "main_window" /\ grab(result, FALSE).open)
         /\ obs = IF program = "main_window"
                  THEN [ObsInit EXCEPT !.laser = grab(result, FALSE)]
                  ELSE [ObsInit EXCEPT !.accesses = {}]
    /\ grid = FALSE
    /\ aquiring = FALSE
    /\ aquiring_mutex = 0
    /\ enabled = update_controls(FALSE, FALSE, is_streaming, laser_open, None)
    /\ mode = "navigation"
    /\ start_point = NoPoint
    /\ photos = <<>>
    /\ recording = FALSE
    /\ conns = <<>>
    /\ pconns = 0
    /\ laser_data_raw = <<>>
    /\ z_data_raw = <<>>
    /\ wavelens = 0
    /\ z_positions = 0
    /\ hw = [wl |-> 0, z |-> 0, xy |-> 0, xypos |-> start.xy, zpos |-> start.z]
    /\ workers = [w \in Workers |-> Idle]
    /\ doneQueue = <<>>
    /\ shoot_photo = FALSE
    /\ shoot_bg = FALSE
    /\ events = <<>>
    /\ capture_to_video = FALSE
    /\ video_capture_pause = FALSE
    /\ video_writer = FALSE

\* Where the stages stand when the program starts: at the origin, or
\* anywhere else.
Origin == [xy |-> <<0, 0>>, z |-> 0]
StartPositions == {Origin, [xy |-> <<2, 3>>, z |-> 5]}

Init == InitAt(Origin, MaxOps)

Next ==
    \/ NewFrame
    \/ snap_photo
    \/ snap_background
    \/ snap_processed_photo
    \/ laser_sweep
    \/ z_sweep
    \/ toggle_grid
    \/ toggle_laser
    \/ startStopStream
    \/ toggle_background_subtraction
    \/ \E m \in {"roi", "move"} : toggle_mode(m)
    \/ \E pos \in SomePositions : mousePressEvent(pos)
    \/ \E pos \in SomePositions : mouseReleaseEvent(pos)
    \/ toggle_video
    \/ HandleDone
    \/ \E w \in Workers : WorkerStep(w)
    \/ frames_queued
    \/ onShootPhoto
    \/ onShootBG
    \/ customEvent
    \/ \E files \in SomeSelections : select_background(files)
    \/ old_toggle_background_subtraction
    \/ old_startStopStream
    \/ onStartStopCaptureVideo
    \/ onPauseCaptureVideo
    \/ onStopCaptureVideo

Spec == Init /\ [][Next]_vars

\* Fair scheduling: a thread that can take a step takes it, the GUI thread
\* handles the signals queued to it, and the camera delivers a frame
\* whenever it is streaming.
FairSpec ==
    /\ Spec
    /\ WF_vars(NewFrame)
    /\ WF_vars(HandleDone)
    /\ \A w \in Workers : WF_vars(WorkerStep(w))

\* The acquisitions that move the stages, from every starting position,
\* with a camera streaming and both stages connected.
InitHome ==
    \E start \in StartPositions :
        /\ InitAt(start, MaxOps)
        /\ program = "main_window"
        /\ is_streaming
        /\ xy_stage
        /\ laser_open
NextHome ==
    \/ NewFrame
    \/ snap_background
    \/ z_sweep
    \/ toggle_grid
    \/ HandleDone
    \/ \E w \in Workers : WorkerStep(w)
HomeSpec == InitHome /\ [][NextHome]_vars

\* The mode of the video view under toggle_mode and under assignments of
\* any value.
InitMode == Init /\ program = "main_window"
NextMode ==
    \/ \E m \in {"roi", "move"} : toggle_mode(m)
    \/ \E v \in ModeInputs : set_mode(v)
ModeSpec == InitMode /\ [][NextMode]_vars

\* A longer run of main_window.py in one setup: the camera streaming, both
\* stages and the laser connected; acquisitions, the grid, the view's modes
\* and mouse, and background subtraction.
InitSession ==
    /\ InitAt(Origin, LongRun)
    /\ program = "main_window"
    /\ is_streaming
    /\ xy_stage
    /\ laser_open
NextSession ==
    \/ NewFrame
    \/ snap_background
    \/ laser_sweep
    \/ toggle_grid
    \/ toggle_background_subtraction
    \/ \E m \in {"roi", "move"} : toggle_mode(m)
    \/ \E pos \in SomePositions : mousePressEvent(pos)
    \/ \E pos \in SomePositions : mouseReleaseEvent(pos)
    \/ HandleDone
    \/ \E w \in Workers : WorkerStep(w)
SessionSpec == InitSession /\ [][NextSession]_vars

\* Dragging a rectangle in roi mode, between any two scene positions.
NextRoi ==
    \/ toggle_mode("roi")
    \/ \E pos \in ScenePositions : mousePressEvent(pos)
    \/ \E pos \in ScenePositions : mouseReleaseEvent(pos)
RoiSpec == InitSession /\ [][NextRoi]_vars

\* Recording a video beside the snapshots, in grid mode and out of it.
NextRecording ==
    \/ NewFrame
    \/ toggle_grid
    \/ toggle_video
    \/ snap_background
    \/ snap_processed_photo
    \/ HandleDone
    \/ \E w \in Workers : WorkerStep(w)
RecordingSpec == InitSession /\ [][NextRecording]_vars

\* Grid acquisitions requested one after another and during one another,
\* in a run one operation longer.
InitGrid ==
    /\ InitAt(Origin, LongRun + 1)
    /\ program = "main_window"
    /\ is_streaming
    /\ xy_stage
    /\ ~laser_open
NextGrid ==
    \/ NewFrame
    \/ toggle_grid
    \/ snap_background
    \/ snap_processed_photo
    \/ HandleDone
    \/ \E w \in Workers : WorkerStep(w)
GridSpec == InitGrid /\ [][NextGrid]_vars

\* Select Backgrounds alone, over every selection of files, with no camera
\* streaming (select_background reads neither the stream nor its frames).
InitAvg == Init /\ program = "mainwindow" /\ ~is_streaming
NextAvg == \E files \in Selections : select_background(files)
AvgSpec == InitAvg /\ [][NextAvg]_vars

\* ============================================================== properties
\* Where run() is while the function it was given has not returned.
InFunc == {"run", "step", "seq_begin", "seq_move", "connect", "lock",
           "waiting", "woken", "seq_return", "seq_store", "sweep_end"}
InFlight(w) == workers[w].pc \in InFunc

SweepFuncs == {"take_laser_sweep", "take_z_sweep"}

\* A sweep's loop is over and finish_aquisition has not yet cleared the flag.
SweepDone == {"sweep_end", "emit_done", "finish_lock", "finish_write"}

\* The raw-data list of the sweep worker w runs.
SweepData(w) == IF workers[w].func = "take_laser_sweep" THEN laser_data_raw
                ELSE z_data_raw

\* C1.  At most one acquisition is in flight: at most one worker has been
\* started and has not returned from its function, and aquiring is true for
\* as long as a worker is inside its function.
OneAcquisitionInFlight ==
    /\ Cardinality({w \in Workers : InFlight(w)}) <= 1
    /\ \A w \in Workers : InFlight(w) => aquiring

\* A second acquisition is in flight after a first one has finished.
SecondAcquisitionInFlight ==
    \E w, v \in Workers : InFlight(w) /\ workers[v].pc = "finished"

\* C2, as the code has it.  Every write of aquiring is made by a thread that
\* holds aquiring_mutex; the reads (update_controls, the handlers' tests)
\* are made without it.
WritesHoldMutex ==
    \A a \in obs.accesses :
        /\ (a.kind = "write") => a.held
        /\ (a.kind = "read") => ~a.held

\* The constructor and finish_aquisition have both written the flag.
BothWritersSeen ==
    /\ Acc("gui", "write", TRUE) \in obs.accesses
    /\ Acc("worker", "write", TRUE) \in obs.accesses

\* C2, as stated.  Every read and every write of aquiring is made by a
\* thread that holds aquiring_mutex.
EveryAccessHoldsMutex == \A a \in obs.accesses : a.held

\* The camera has stopped delivering frames: the stream is off, or the
\* recording has reached the length considered.
CameraStalled ==
    \/ ~is_streaming
    \/ recording /\ Len(photos) >= MaxPhotos

\* C3.  Under fair scheduling and a camera that keeps delivering frames, a
\* worker blocked in got_image.wait() is eventually woken.
WaitReturns ==
    \A w \in Workers :
        (workers[w].pc = "waiting")
            ~> (workers[w].pc # "waiting" \/ CameraStalled)

\* C4.  A worker waits for a frame at every step: when a sweep is at step i
\* the data of the steps before i has been appended, when wait has returned
\* at step i so has the frame of step i, and the loop is left only with the
\* data of every step; take_sequence likewise, position by position.
WaitsForFrameAtEveryStep ==
    \A w \in Workers :
        LET r == workers[w] IN
        /\ (r.func \in SweepFuncs /\ r.pc \in InFunc /\ r.i > 0)
              => r.stored >= r.i - 1
        /\ (r.func \in SweepFuncs /\ r.pc = "woken" /\ r.k = 0)
              => r.stored >= r.i
        /\ (r.func \in SweepFuncs /\ r.pc \in SweepDone)
              => r.stored = SweepLen(w)
        /\ (r.pc \in InFunc /\ r.k > 0) => Len(r.cap) >= r.k - 1
        /\ (r.pc = "woken" /\ r.k > 0) => Len(r.cap) >= r.k
        /\ (r.pc = "seq_return") => Len(r.cap) = NPositions

\* A non-grid sweep has set its second value, the frame of the first one
\* appended.
SecondStepReached ==
    \E w \in Workers :
        /\ workers[w].pc \in {"connect", "lock", "waiting"}
        /\ workers[w].i = 2
        /\ workers[w].k = 0
        /\ workers[w].stored = 1

\* C5, as the code has it.  A frame is handed to the save path once for
\* every snap_photo request made since the last frame (main_window.py), once
\* when onShootPhoto or onShootBG was called since the last frame, however
\* often (mainwindow.py), and not at all when no request was made; no
\* request is pending afterwards.
PhotoRequestServiced ==
    obs.last.seen =>
        /\ obs.last.got = IF program = "main_window" THEN obs.last.req
                          ELSE IF obs.last.req > 0 THEN 1 ELSE 0
        /\ ~obs.last.pending

\* A frame was delivered with two requests pending.
TwoRequestsServed == obs.last.seen /\ obs.last.req = 2

\* C5, as stated.  The first frame after a request is handed to the save
\* path exactly once, and a frame delivered while no request is pending is
\* not handed to it.
FrameHandedExactlyOnce ==
    obs.last.seen => obs.last.got = IF obs.last.req > 0 THEN 1 ELSE 0

\* C6.  GUI operations are called on the GUI thread only.
GuiCallsOnGuiThread == \A c \in obs.guiCalls : c.by = "gui"

\* C7.  Last snapshot wins: background is the value the latest background
\* snapshot, grid background acquisition or ROI change to complete meant to
\* store.
LastSnapshotWins == obs.written.inscope => background = obs.written.value

\* C8.  When the function a worker runs raises, aquiring returns to false.
FailureIsLocal ==
    \A w \in Workers : (workers[w].pc = "failed") ~> ~aquiring

\* C9.  When a non-grid sweep over N values has completed, its raw-data list
\* holds exactly N frames and the j-th of them shows the j-th value.
SweepCapturesEachStep ==
    \A w \in Workers :
        LET r == workers[w]
            data == SweepData(w)
        IN (r.func \in SweepFuncs /\ r.nongrid /\ r.pc \in SweepDone) =>
             /\ Len(data) = SweepLen(w)
             /\ \A j \in 1..Len(data) :
                  /\ ~data[j].grid
                  /\ IF r.func = "take_laser_sweep"
                     THEN data[j].img[1].wl = j
                     ELSE data[j].img[1].z = j

\* A non-grid sweep over the longest range has completed.
LongSweepCompleted ==
    \E w \in Workers :
        /\ workers[w].func \in SweepFuncs
        /\ workers[w].nongrid
        /\ workers[w].pc = "emit_done"
        /\ SweepLen(w) = MaxSteps

\* C10.  Every frame is emitted exactly once, background-subtracted exactly
\* when subtract_background is set and background is not None.
SubtractionExactlyWhenEnabled ==
    obs.last.seen =>
        /\ Len(obs.last.emits) = 1
        /\ obs.last.emits[1].sub = (obs.last.flag /\ obs.last.hadBg)

\* update_display has subtracted the background from a frame.
FrameSubtracted ==
    /\ program = "main_window"
    /\ obs.last.seen
    /\ obs.last.emits[1].sub

\* C11.  A busy port is surfaced without retry: a grab that finds openPorts
\* returning non-zero has called it once, leaves the laser closed, has
\* written no register, has shown the warning exactly when asked to, and
\* has emitted changedState(false) once.
GrabBusySurfaced ==
    (obs.laser.call = "grab" /\ obs.laser.result # 0) =>
        /\ ~laser_open
        /\ obs.laser.openPorts = 1
        /\ obs.laser.writes = 0
        /\ obs.laser.warned = obs.laser.warning
        /\ obs.laser.emits = <<FALSE>>

\* toggle_laser has found the port busy.
GrabFoundPortBusy ==
    /\ obs.laser.call = "grab"
    /\ obs.laser.result # 0
    /\ obs.laser.warning

\* C12.  A failed start of video capture is local to the attempt: after
\* begin_file has raised, capture_to_video is false.
FailedStartNotCapturing ==
    (obs.video.begin = "failed" /\ obs.video.finishes = 0)
        => ~capture_to_video

\* The weight the averaging is said to give a grey-value distance, in
\* hundredths.
StatedWeight(d) == IF d < 10 THEN 151 ELSE IF d < 20 THEN 51 ELSE 1

\* C13.  For n >= 2 images, image i has the weight sum over j # i of
\* w(|b_i - b_j|), w being 1.51 below 10, 0.51 from 10 to below 20 and 0.01
\* from 20 on; every weight is strictly positive, and so is their sum (the
\* weighted average is defined).
WeightsAreAsStated ==
    LET b == obs.avg.imgs
        w == obs.avg.weights
        n == Len(b)
    IN n >= 2 =>
         /\ Len(w) = n
         /\ \A i \in 1..n :
              /\ w[i] = SumTo([j \in 1..n |->
                               IF j = i THEN 0
                               ELSE StatedWeight(AbsDiff(b[i], b[j]))], n)
              /\ w[i] > 0
         /\ SumTo(w, n) > 0

\* Three images, two of them closer than 10 and the third further than 20
\* from both, have been averaged: weights 1.52, 1.52 and 0.02.
ThreeImagesAveraged ==
    /\ obs.avg.imgs = <<0, 9, 255>>
    /\ obs.avg.weights = <<152, 152, 2>>
    /\ background = [kind |-> "files", img |-> <<6>>]

\* C14.  A frame captured for a Shoot Photo request alone is never handed to
\* save_background.
PhotoNeverStoredAsBackground == ~obs.shots.misfiled

\* The actions update_controls enables only while no acquisition runs.
Gated == {"device_properties", "device_driver_properties", "start_live",
          "video", "close_device", "snap_background", "snap_processed_photo",
          "snap_raw_photo", "z_sweep", "laser_sweep", "set_roi", "move"}

\* C15.  While the busy flag is set (from a worker's construction until its
\* finish_aquisition clears it) none of the gated actions is enabled.
GatedDisabledWhileAquiring == aquiring => (enabled \cap Gated = {})

\* The take_sequence of worker w has completed: it is past "Return to base".
SequenceCompleted(w) == workers[w].k = 0 /\ workers[w].cmds # <<>>

\* C16.  A completed take_sequence has commanded anchor+(0,0), anchor+(4,0),
\* anchor+(4,4), anchor+(0,4) and then the anchor it read at its start; a
\* completed take_z_sweep has commanded last the z_zero it read at its start.
AcquisitionReturnsToStart ==
    \A w \in Workers :
        LET r == workers[w] IN
        /\ SequenceCompleted(w) =>
              r.cmds = <<Plus(<<0, 0>>, r.anchor), Plus(<<4, 0>>, r.anchor),
                         Plus(<<4, 4>>, r.anchor), Plus(<<0, 4>>, r.anchor),
                         r.anchor>>
        /\ (r.func = "take_z_sweep" /\ r.pc \in SweepDone \ {"sweep_end"})
              => r.zcmd = r.z_zero

\* A take_sequence and a take_z_sweep have completed away from the origin.
ReturnedAwayFromOrigin ==
    /\ hw.xypos = <<2, 3>>
    /\ hw.zpos = 5
    /\ \E w \in Workers :
          /\ SequenceCompleted(w)
          /\ workers[w].func = "take_z_sweep"
          /\ workers[w].pc = "emit_done"
          /\ workers[w].z_zero = 5

\* C17.  The mode is always one of navigation, move, roi; toggle_mode(m)
\* sets it to navigation when it is m and to m otherwise; assigning one of
\* the three modes sets it, assigning anything else raises ValueError and
\* leaves it as it was.
ModeIsOneOfThree ==
    /\ [](mode \in Modes)
    /\ [][/\ \A m \in {"roi", "move"} :
               toggle_mode(m) =>
                   /\ mode' = (IF mode = m THEN "navigation" ELSE m)
                   /\ ~obs'.valueError
          /\ \A v \in ModeInputs :
               set_mode(v) =>
                   IF v \in {"navigation", "move", "roi"}
                   THEN mode' = v /\ ~obs'.valueError
                   ELSE mode' = mode /\ obs'.valueError]_vars

\* A value that is no mode was assigned while the view was in roi mode.
UnknownModeRefused ==
    /\ obs.assigned = "zoom"
    /\ obs.valueError
    /\ mode = "roi"

CheckedMatchesSubtraction == subtract_checked = subtract_background

\* C20.  When startStopStream stops the stream while capture_to_video is
\* true, capture_to_video is false afterwards and finish_file has been called
\* exactly once for that capture; when it starts the stream, or stops it
\* while nothing is captured, capture_to_video and the calls of finish_file
\* are as before.
StopStreamEndsCapture ==
    [][old_startStopStream =>
          IF is_streaming /\ capture_to_video
          THEN /\ ~is_streaming'
               /\ ~capture_to_video'
               /\ obs'.video.finishes = 1
          ELSE /\ capture_to_video' = capture_to_video
               /\ obs'.video.finishes = obs.video.finishes]_vars

\* The stream was stopped while a video was captured.
CaptureEndedByStreamStop ==
    /\ obs.video.endedBy = "startStopStream"
    /\ obs.video.begin = "ok"
    /\ obs.video.finishes = 1
    /\ ~is_streaming
    /\ ~capture_to_video

\* C21.  A Snap Background or Snap Photo request made in grid mode while an
\* acquisition is running starts no worker and leaves the photos list alone.
RequestWhileAquiringIgnored ==
    [][(aquiring /\ grid /\ (snap_background \/ snap_processed_photo))
         => (photos' = photos /\ workers' = workers)]_vars

\* C22.  While a video is being recorded the photos list is the frames
\* update_display has emitted since start_video, in emission order.
RecordingHoldsShownFrames == recording => photos = obs.rec

\* C23.  No step a worker takes inside take_laser_sweep or take_z_sweep, in
\* grid mode or out of it, changes background or subtract_background.
SweepLeavesBackgroundAlone ==
    [][\A w \in Workers :
          (workers[w].func \in SweepFuncs /\ WorkerStep(w))
             => UNCHANGED <<background, subtract_background>>]_vars

\* C24.  Every set_wavelen call of take_laser_sweep (the one before its loop
\* and the one of each step) is made while laser.open is true.
SetWavelenWhileOpen ==
    [][\A w \in Workers :
          (workers[w].func = "take_laser_sweep" /\ (W_Run(w) \/ W_Step(w)))
             => laser_open]_vars

\* The actions whose handlers run take_sequence when grid is set.
GridActions == {"snap_background", "snap_processed_photo", "z_sweep",
                "laser_sweep"}

\* C25.  While grid is set and no XY stage is connected, none of the
\* actions that run take_sequence is enabled.
GridNeedsXYStage == (grid /\ ~xy_stage) => (enabled \cap GridActions = {})

\* C26.  Every rectangle roi_set is emitted with lies inside the sensor, its
\* left and top are multiples of 16 and its width and height positive
\* multiples of 16.
RoiIsSensorWindow ==
    obs.roi_set > 0 =>
        LET r == obs.roi IN
        /\ left(r) >= 0 /\ left(r) + rectWidth(r) <= width
        /\ top(r) >= 0 /\ top(r) + rectHeight(r) <= height
        /\ left(r) % Grid = 0 /\ top(r) % Grid = 0
        /\ rectWidth(r) > 0 /\ rectWidth(r) % Grid = 0
        /\ rectHeight(r) > 0 /\ rectHeight(r) % Grid = 0

====
